---- MODULE Spec2Model ----
(***************************************************************************)
(* Shape-level and index-level model of networks.py (InGAN): Generator,    *)
(* RescaleBlock, GeoTransform, MultiScaleDiscriminator, RandomCrop and     *)
(* SwapCrops.  A tensor is modelled by its shape [c, h, w] (the batch      *)
(* dimension is carried through every layer unchanged); an image whose     *)
(* content matters (SwapCrops) is a function from pixel positions to       *)
(* values.  A call of a torch operation that raises moves the call to      *)
(* pc = "failed".                                                          *)
(***************************************************************************)
EXTENDS Integers, Sequences, FiniteSets, TLC

VARIABLES
    pc,            \* position of the modelled call
    cfg,           \* constructor arguments and call arguments
    feature_map,   \* Generator.forward / RescaleBlock.forward: feature_map
    all_scales,    \* RescaleBlock.forward: all_scales of the running block
    downscales,    \* Generator.forward: downscales (the pyramid handed on)
    stage,         \* RescaleBlock.forward: loop index i
    fused,         \* operands of the last skip addition
    geo,           \* GeoTransform.forward: the pad tuple and the result
    disc,          \* MultiScaleDiscriminator: last two constructed, last map
    crop,          \* RandomCrop.forward: last call and its result
    swap           \* SwapCrops.forward: locals of the running call

vars == <<pc, cfg, feature_map, all_scales, downscales, stage, fused, geo,
          disc, crop, swap>>

(***************************************************************************)
(* Bounds of the model.                                                    *)
(***************************************************************************)
MaxInSize == 4
MaxOutSize == 8
MaxDown == 3
MaxBlocks == 1
MaxRescaleSize == 8
MaxLayers == 3

InChannels == {1, 3}
GenBaseChannels == {4, 64}
RescaleChannels == {1, 2, 4}

Idle == [idle |-> TRUE]
NoneValue == [is_none |-> TRUE, list |-> <<>>]
ListValue(s) == [is_none |-> FALSE, list |-> s]

Shape(c, h, w) == [c |-> c, h |-> h, w |-> w]

RECURSIVE Pow(_, _)
Pow(b, e) == IF e <= 0 THEN 1 ELSE b * Pow(b, e - 1)

BoolInt(b) == IF b THEN 1 ELSE 0

Min2(a, b) == IF a <= b THEN a ELSE b
Max2(a, b) == IF a >= b THEN a ELSE b
Abs(a) == IF a < 0 THEN -a ELSE a

\* ceil(a / b) for an integer a of either sign and b > 0
CeilDiv(a, b) == -((-a) \div b)

(***************************************************************************)
(* torch layers on shapes: when the layer accepts the tensor, and what it  *)
(* returns.                                                                *)
(***************************************************************************)
\* nn.ReflectionPad2d(p) / f.pad(.., 'reflect'): each pad is below the dimension
CanReflectPad(t, l, r, u, d) ==
    /\ t.h > 0 /\ t.w > 0
    /\ l < t.w /\ r < t.w /\ u < t.h /\ d < t.h
ReflectPad(t, l, r, u, d) == Shape(t.c, t.h + u + d, t.w + l + r)

\* nn.Conv2d(cin, cout, kernel_size=k, stride=s), no padding
CanConv(t, cin, k) == t.c = cin /\ t.h >= k /\ t.w >= k
Conv(t, cout, k, s) == Shape(cout, ((t.h - k) \div s) + 1, ((t.w - k) \div s) + 1)

\* nn.MaxPool2d(2, 2)
MaxPoolCeil(t) == Shape(t.c, CeilDiv(t.h - 2, 2) + 1, CeilDiv(t.w - 2, 2) + 1)
CanMaxPool(t) == t.h >= 2 /\ t.w >= 2
MaxPool(t) == Shape(t.c, ((t.h - 2) \div 2) + 1, ((t.w - 2) \div 2) + 1)

\* f.interpolate(t, scale_factor=2.0, mode='nearest')
CanUpscale(t) == t.h > 0 /\ t.w > 0
Upscale(t) == Shape(t.c, t.h * 2, t.w * 2)

\* f.interpolate(t, size=size, mode='bilinear')
CanResize(t, size) == t.h > 0 /\ t.w > 0 /\ size[1] > 0 /\ size[2] > 0
Resize(t, size) == Shape(t.c, size[1], size[2])

\* a + b on tensors: torch broadcasting of the trailing dimensions
Broadcastable(a, b) ==
    /\ (a.c = b.c \/ a.c = 1 \/ b.c = 1)
    /\ (a.h = b.h \/ a.h = 1 \/ b.h = 1)
    /\ (a.w = b.w \/ a.w = 1 \/ b.w = 1)
Add(a, b) == Shape(Max2(a.c, b.c), Max2(a.h, b.h), Max2(a.w, b.w))

(***************************************************************************)
(* RescaleBlock.__init__: the channel schedule.  Conv i maps               *)
(* base * 2^(i + (scale > 1)) channels to base * 2^(i + (scale < 1)); the  *)
(* list is reversed for scale > 1, so the layer run at loop position j is  *)
(* conv n_layers - 1 - j.                                                  *)
(***************************************************************************)
ConvIndex(j, n_layers, up) == IF up THEN n_layers - 1 - j ELSE j
ConvIn(j, n_layers, base, up) == base * Pow(2, ConvIndex(j, n_layers, up) + BoolInt(up))
ConvOut(j, n_layers, base, up) == base * Pow(2, ConvIndex(j, n_layers, up) + BoolInt(~up))

\* conv_layers[j]: ReflectionPad2d(1), Conv2d(kernel 3, stride 1), norm, LeakyReLU
CanConvLayer(t, j, n_layers, base, up) ==
    /\ CanReflectPad(t, 1, 1, 1, 1)
    /\ CanConv(ReflectPad(t, 1, 1, 1, 1), ConvIn(j, n_layers, base, up), 3)
ConvLayer(t, j, n_layers, base, up) ==
    Conv(ReflectPad(t, 1, 1, 1, 1), ConvOut(j, n_layers, base, up), 3, 1)

\* pyramid[-i - 2], as a 1-based position of the list (0 or less: IndexError)
SkipIndexBad(i, len) == len - i
SkipIndex(i, len) == len - i - 1

(***************************************************************************)
(* GeoTransform.forward.  A shift is the dyadic fraction num / den, so     *)
(* that sz[3] * shift is exact in floating point and np.ceil of it is the  *)
(* ceiling of the rational product.                                        *)
(***************************************************************************)
MaxShiftNum == 3
ShiftDens == {2, 4}
ShiftValues == {[num |-> n, den |-> d] : n \in -MaxShiftNum..MaxShiftNum, d \in ShiftDens}

\* np.int(np.ceil(width * shift))
CeilScaled(width, shift) == CeilDiv(width * shift.num, shift.den)
\* the claimed pad: ceil(width * |shift|)
CeilOfAbs(width, shift) == CeilDiv(width * Abs(shift.num), shift.den)

\* the pad tuple (left, right, top, bottom) given to f.pad
GeoPad(sz, shifts) ==
    <<Abs(CeilScaled(sz.w, shifts[1])),
      Abs(CeilScaled(sz.w, [num |-> -shifts[2].num, den |-> shifts[2].den])), 0, 0>>

CanGeoForward(t, target_size, shifts) ==
    LET p == GeoPad(t, shifts)
    IN  /\ CanReflectPad(t, p[1], p[2], p[3], p[4])
        /\ target_size[1] > 0 /\ target_size[2] > 0
\* f.grid_sample(pad, grid): the grid has the target size, the channels are pad's
GeoForward(t, target_size, shifts) ==
    LET p == GeoPad(t, shifts)
    IN  Shape(ReflectPad(t, p[1], p[2], p[3], p[4]).c, target_size[1], target_size[2])

GeoRecord(t, target_size, shifts) ==
    [input |-> t, target_size |-> target_size, shifts |-> shifts,
     pad |-> GeoPad(t, shifts),
     ok |-> CanGeoForward(t, target_size, shifts),
     out |-> GeoForward(t, target_size, shifts)]

(***************************************************************************)
(* Generator: entry block, bottleneck, final block.                        *)
(***************************************************************************)
\* entry_block: ReflectionPad2d(3), Conv2d(3, base, kernel 7), norm, LeakyReLU
CanEntryBlock(t) ==
    /\ CanReflectPad(t, 3, 3, 3, 3)
    /\ CanConv(ReflectPad(t, 3, 3, 3, 3), 3, 7)
EntryBlock(t, base) == Conv(ReflectPad(t, 3, 3, 3, 3), base, 7, 1)

\* ResnetBlock(dim): 1x1 conv, pad 1, 3x3 conv, 1x1 conv, plus the input
CanResnetBlock(t, dim) ==
    /\ CanConv(t, dim, 1)
    /\ CanReflectPad(Conv(t, dim \div 4, 1, 1), 1, 1, 1, 1)
ResnetBlock(t, dim) ==
    Add(t, Conv(Conv(ReflectPad(Conv(t, dim \div 4, 1, 1), 1, 1, 1, 1), dim \div 4, 3, 1), dim, 1, 1))

\* bottleneck_block: n_blocks ResnetBlocks of the same width keep the shape
CanBottleneck(t, dim, n_blocks) == n_blocks = 0 \/ CanResnetBlock(t, dim)
Bottleneck(t, dim, n_blocks) == IF n_blocks = 0 THEN t ELSE ResnetBlock(t, dim)

\* final_block: ReflectionPad2d(3), Conv2d(base, 3, kernel 7), Tanh
FinalChannels == 3
CanFinalBlock(t, base) ==
    /\ CanReflectPad(t, 3, 3, 3, 3)
    /\ CanConv(ReflectPad(t, 3, 3, 3, 3), base, 7)
FinalBlock(t) == Conv(ReflectPad(t, 3, 3, 3, 3), FinalChannels, 7, 1)

(***************************************************************************)
(* The running call: accessors of cfg.                                     *)
(***************************************************************************)
IsGenerator == cfg.call = "Generator"
IsSwap == cfg # Idle /\ cfg.call = "SwapCrops"
NLayers == IF IsGenerator THEN cfg.n_downsampling ELSE cfg.n_layers
\* Generator.forward passes return_all_scales=self.skip and skip=self.skip
ReturnAllScales == IF IsGenerator THEN cfg.skip ELSE cfg.return_all_scales

OtherIdle == geo = Idle /\ disc = Idle /\ crop = Idle /\ swap = Idle

\* RescaleBlock.forward, lines 308-311: the locals before the loop
StartBlock(t, return_all_scales) ==
    /\ feature_map' = t
    /\ all_scales' = IF return_all_scales THEN <<t>> ELSE <<>>
    /\ stage' = 0

Fail ==
    /\ pc' = "failed"
    /\ UNCHANGED <<cfg, feature_map, all_scales, downscales, stage, fused, geo,
                   disc, crop, swap>>

\* Generator.forward, line 147
GenEntry ==
    /\ pc = "entry"
    /\ IF CanEntryBlock(cfg.input)
       THEN /\ feature_map' = EntryBlock(cfg.input, cfg.base_channels)
            /\ pc' = "resize"
            /\ UNCHANGED <<cfg, all_scales, downscales, stage, fused, geo, disc, crop, swap>>
       ELSE Fail

\* Generator.forward, lines 150-156: resize or warp, then enter the downscale block
GenResize ==
    /\ pc = "resize"
    /\ IF cfg.random_affine.is_none
       THEN IF CanResize(feature_map, cfg.output_size)
            THEN /\ StartBlock(Resize(feature_map, cfg.output_size), cfg.skip)
                 /\ pc' = "down"
                 /\ UNCHANGED <<cfg, downscales, fused, geo, disc, crop, swap>>
            ELSE Fail
       ELSE IF CanGeoForward(feature_map, cfg.output_size, cfg.random_affine.list)
            THEN /\ StartBlock(GeoForward(feature_map, cfg.output_size, cfg.random_affine.list),
                               cfg.skip)
                 /\ geo' = GeoRecord(feature_map, cfg.output_size, cfg.random_affine.list)
                 /\ pc' = "down"
                 /\ UNCHANGED <<cfg, downscales, fused, disc, crop, swap>>
            ELSE Fail

\* RescaleBlock.forward with scale 0.5, one pass of the loop (lines 313-327)
DownStage ==
    /\ pc = "down"
    /\ stage < NLayers
    /\ IF /\ CanConvLayer(feature_map, stage, NLayers, cfg.base_channels, FALSE)
          /\ CanMaxPool(ConvLayer(feature_map, stage, NLayers, cfg.base_channels, FALSE))
       THEN LET out == MaxPool(ConvLayer(feature_map, stage, NLayers, cfg.base_channels, FALSE))
            IN  /\ feature_map' = out
                /\ all_scales' = IF ReturnAllScales THEN Append(all_scales, out) ELSE all_scales
                /\ stage' = stage + 1
                /\ UNCHANGED <<pc, cfg, downscales, fused, geo, disc, crop, swap>>
       ELSE Fail

\* the value RescaleBlock.forward returns second (line 329)
ReturnedScales == IF ReturnAllScales THEN ListValue(all_scales) ELSE NoneValue

\* Generator.forward, lines 156-162: the downscale block returns, the bottleneck
\* runs, the upscale block is entered with pyramid=downscales
GenBottleneck ==
    /\ pc = "down"
    /\ IsGenerator
    /\ stage = NLayers
    /\ LET dim == cfg.base_channels * Pow(2, cfg.n_downsampling)
       IN  IF CanBottleneck(feature_map, dim, cfg.n_blocks)
           THEN /\ downscales' = ReturnedScales
                /\ StartBlock(Bottleneck(feature_map, dim, cfg.n_blocks), FALSE)
                /\ pc' = "up"
                /\ UNCHANGED <<cfg, fused, geo, disc, crop, swap>>
           ELSE Fail

\* a downscale RescaleBlock returns and an upscale one is run on its result
RescaleHandover ==
    /\ pc = "down"
    /\ ~IsGenerator
    /\ stage = NLayers
    /\ downscales' = ReturnedScales
    /\ StartBlock(feature_map, FALSE)
    /\ pc' = "up"
    /\ UNCHANGED <<cfg, fused, geo, disc, crop, swap>>

\* RescaleBlock.forward with scale 2.0, one pass of the loop (lines 313-327)
UpStage ==
    /\ pc = "up"
    /\ stage < NLayers
    /\ IF /\ CanUpscale(feature_map)
          /\ CanConvLayer(Upscale(feature_map), stage, NLayers, cfg.base_channels, TRUE)
       THEN LET conv == ConvLayer(Upscale(feature_map), stage, NLayers, cfg.base_channels, TRUE)
                at == SkipIndex(stage, Len(downscales.list))
            IN  IF ~cfg.skip
                THEN /\ feature_map' = conv
                     /\ stage' = stage + 1
                     /\ UNCHANGED <<pc, cfg, all_scales, downscales, fused, geo, disc, crop, swap>>
                ELSE IF /\ ~downscales.is_none
                        /\ at >= 1
                        /\ Broadcastable(conv, downscales.list[at])
                     THEN /\ feature_map' = Add(conv, downscales.list[at])
                          /\ fused' = [stage |-> stage, conv |-> conv,
                                       at |-> at, entry |-> downscales.list[at]]
                          /\ stage' = stage + 1
                          /\ UNCHANGED <<pc, cfg, all_scales, downscales, geo, disc, crop, swap>>
                     ELSE Fail
       ELSE Fail

\* Generator.forward, lines 165-167
GenFinal ==
    /\ pc = "up"
    /\ IsGenerator
    /\ stage = NLayers
    /\ IF CanFinalBlock(feature_map, cfg.base_channels)
       THEN /\ feature_map' = FinalBlock(feature_map)
            /\ pc' = "done"
            /\ UNCHANGED <<cfg, all_scales, downscales, stage, fused, geo, disc, crop, swap>>
       ELSE Fail

\* the upscale RescaleBlock returns (line 329)
RescaleReturn ==
    /\ pc = "up"
    /\ ~IsGenerator
    /\ stage = NLayers
    /\ pc' = "done"
    /\ UNCHANGED <<cfg, feature_map, all_scales, downscales, stage, fused, geo, disc, crop, swap>>

GenAffines ==
    {NoneValue} \cup
    {ListValue(<<[num |-> -1, den |-> 2], [num |-> 1, den |-> 4]>>),
     ListValue(<<[num |-> 1, den |-> 4], [num |-> -1, den |-> 4]>>)}

InitGen ==
    /\ pc = "entry"
    /\ cfg \in [call : {"Generator"},
                input : {Shape(c, h, w) : c \in InChannels, h \in 3..MaxInSize, w \in 3..MaxInSize},
                output_size : (1..MaxOutSize) \X (1..MaxOutSize),
                random_affine : GenAffines,
                base_channels : GenBaseChannels,
                n_blocks : 0..MaxBlocks,
                n_downsampling : 0..MaxDown,
                skip : BOOLEAN]
    /\ feature_map = cfg.input
    /\ all_scales = <<>>
    /\ downscales = NoneValue
    /\ stage = 0
    /\ fused = Idle
    /\ OtherIdle

NextGen == GenEntry \/ GenResize \/ DownStage \/ GenBottleneck \/ UpStage \/ GenFinal

SpecGen == InitGen /\ [][NextGen]_vars

InitRescale ==
    /\ pc = "down"
    /\ cfg \in [call : {"RescaleBlock"},
                input : {Shape(c, h, w) : c \in RescaleChannels,
                                          h \in 1..MaxRescaleSize, w \in 1..MaxRescaleSize},
                base_channels : RescaleChannels,
                n_layers : 0..MaxLayers,
                return_all_scales : BOOLEAN,
                skip : BOOLEAN]
    /\ feature_map = cfg.input
    /\ all_scales = IF cfg.return_all_scales THEN <<cfg.input>> ELSE <<>>
    /\ downscales = NoneValue
    /\ stage = 0
    /\ fused = Idle
    /\ OtherIdle

NextRescale == DownStage \/ RescaleHandover \/ UpStage \/ RescaleReturn

SpecRescale == InitRescale /\ [][NextRescale]_vars

(***************************************************************************)
(* Generator.forward: the size of the result.                              *)
(***************************************************************************)
GenDone == pc = "done" /\ IsGenerator
Divides(d, n) == n % d = 0
FloorTo(n, d) == d * (n \div d)
SizeOf(t) == <<t.h, t.w>>

\* C1 as claimed: whenever Generator.forward returns, the result has 3 channels
\* and exactly the requested output_size, with skip_flag True or False.
C1_ExactOutputSize ==
    GenDone => feature_map.c = 3 /\ SizeOf(feature_map) = cfg.output_size

\* C1 amended: whenever Generator.forward returns, the result has 3 channels and
\* each side is output_size rounded down to a multiple of 2^n_downsampling; it is
\* exactly output_size when skip_flag is True or both sides of output_size are
\* multiples of 2^n_downsampling.
C1_OutputSizeRoundedDown ==
    GenDone =>
        LET m == Pow(2, cfg.n_downsampling)
        IN  /\ feature_map.c = 3
            /\ feature_map.h = FloorTo(cfg.output_size[1], m)
            /\ feature_map.w = FloorTo(cfg.output_size[2], m)
            /\ (cfg.skip \/ (Divides(m, cfg.output_size[1]) /\ Divides(m, cfg.output_size[2])))
                   => SizeOf(feature_map) = cfg.output_size

\* a call with skip connections, two downsampling stages and a warp has returned
C1_Witness ==
    /\ GenDone
    /\ cfg.skip
    /\ cfg.n_downsampling = 2
    /\ ~cfg.random_affine.is_none
    /\ cfg.output_size = <<8, 4>>
    /\ SizeOf(feature_map) = <<8, 4>>

(***************************************************************************)
(* RescaleBlock down, then up with the pyramid and skip fusion.            *)
(***************************************************************************)
RoundTrip ==
    /\ ~IsGenerator
    /\ cfg.n_layers >= 1
    /\ cfg.return_all_scales
    /\ cfg.skip
    /\ Divides(Pow(2, cfg.n_layers), cfg.input.h)
    /\ Divides(Pow(2, cfg.n_layers), cfg.input.w)

\* C9: for a downscale block run with return_all_scales on an input whose sides
\* are multiples of 2^N, followed by the upscale block with that pyramid and
\* skip=True: the pyramid has N+1 entries, the input first; at every upscale
\* stage i the convolved map and pyramid[-(i+2)] have the same channels and size;
\* the final output has the shape of the input.
C9_RoundTripShapes ==
    (RoundTrip /\ pc \in {"up", "done"}) =>
        /\ ~downscales.is_none
        /\ Len(downscales.list) = cfg.n_layers + 1
        /\ downscales.list[1] = cfg.input
        /\ stage >= 1 =>
              /\ fused.stage = stage - 1
              /\ fused.entry = downscales.list[Len(downscales.list) + 1 - (fused.stage + 2)]
              /\ fused.conv = fused.entry
        /\ pc = "done" => feature_map = cfg.input

\* a two-stage round trip of an 8 x 4 input has returned
C9_Witness ==
    /\ RoundTrip
    /\ pc = "done"
    /\ cfg.n_layers = 2
    /\ SizeOf(cfg.input) = <<8, 4>>
    /\ fused.stage = 1

(***************************************************************************)
(* MultiScaleDiscriminator.  scale_factor is an integer 2..MaxScaleFactor  *)
(* and the sides of real_crop_size are positive integers; on these         *)
(* np.ceil(np.log(m / 16) / np.log(scale_factor)) is the least integer k   *)
(* with 16 * scale_factor^k >= m, and floor(h * scale_factor**(-i)) is     *)
(* h \div scale_factor^i.                                                  *)
(***************************************************************************)
CropMargin == 2
MaxScales == 9
MaxScaleFactor == 3
MaxExtra == 2
MaxImage == 24
MaxWeights == 3

min_size == 16

\* least k >= 1 with floor * sf^k >= m, for m > floor
RECURSIVE CeilLogUp(_, _, _, _)
CeilLogUp(m, floor, sf, k) ==
    IF floor * Pow(sf, k) >= m THEN k ELSE CeilLogUp(m, floor, sf, k + 1)
\* greatest j >= 0 with m * sf^j <= floor, for m <= floor
RECURSIVE FloorLogDown(_, _, _, _)
FloorLogDown(m, floor, sf, j) ==
    IF m * Pow(sf, j + 1) <= floor THEN FloorLogDown(m, floor, sf, j + 1) ELSE j

\* np.int(np.ceil(np.log(m * 1.0 / floor) / np.log(sf)))
CeilLog(m, floor, sf) ==
    IF m > floor THEN CeilLogUp(m, floor, sf, 1) ELSE -FloorLogDown(m, floor, sf, 0)

\* self.max_n_scales (lines 199-204)
ScaleCountOfMax(real_crop_size, max_n_scales, scale_factor) ==
    Min2(CeilLog(Max2(real_crop_size[1], real_crop_size[2]), min_size, scale_factor),
         max_n_scales)
ScaleCount(real_crop_size, max_n_scales, scale_factor) ==
    Min2(CeilLog(Min2(real_crop_size[1], real_crop_size[2]), min_size, scale_factor),
         max_n_scales)

\* len(self.nets) after the loop of lines 210-211: range(n) is empty for n <= 0
NumNets(real_crop_size, max_n_scales, scale_factor) ==
    Max2(0, ScaleCount(real_crop_size, max_n_scales, scale_factor))

\* make_net: the convolutions of the sequence, in order (norms, activations and
\* the sigmoid keep the shape)
ConvSpec(cin, cout, k, s) == [cin |-> cin, cout |-> cout, k |-> k, s |-> s]
make_net(base_channels, extra_conv_layers) ==
    <<ConvSpec(3, base_channels, 3, 1),
      ConvSpec(base_channels, base_channels * 2, 3, 2),
      ConvSpec(base_channels * 2, base_channels * 2, 3, 1)>>
    \o [x \in 1..extra_conv_layers |-> ConvSpec(base_channels * 2, base_channels * 2, 3, 1)]
    \o <<ConvSpec(base_channels * 2, 1, 1, 1)>>

\* nn.Sequential.__call__: the layers from position i on
RECURSIVE RunNet(_, _, _)
RunNet(net, i, t) ==
    IF i > Len(net) THEN [ok |-> TRUE, out |-> t]
    ELSE IF CanConv(t, net[i].cin, net[i].k)
         THEN RunNet(net, i + 1, Conv(t, net[i].cout, net[i].k, net[i].s))
         ELSE [ok |-> FALSE, out |-> t]

\* f.interpolate(input_tensor, scale_factor=self.scale_factor**(-i), mode='bilinear')
Downscaled(t, scale_factor, i) ==
    Shape(t.c, t.h \div Pow(scale_factor, i), t.w \div Pow(scale_factor, i))

\* the scales forward runs: zip(self.nets[1:], scale_weights[1:], range(1, len(scale_weights)))
ForwardScales(n_nets, n_weights) == 1..(Min2(n_nets, n_weights) - 1)

\* result_map_for_current_scale of scale i (i = 0: the full-resolution input)
ScaleMap(d, input, i) ==
    LET down == Downscaled(input, d.scale_factor, i)
    IN  IF down.h > 0 /\ down.w > 0
        THEN RunNet(make_net(d.base_channels, d.extra_conv_layers), 1, down)
        ELSE [ok |-> FALSE, out |-> down]

\* MultiScaleDiscriminator.__init__
DiscInit(real_crop_size, max_n_scales, scale_factor, base_channels, extra_conv_layers) ==
    /\ pc = "new"
    /\ disc' = [real_crop_size |-> real_crop_size,
                scale_factor |-> scale_factor,
                base_channels |-> base_channels,
                extra_conv_layers |-> extra_conv_layers,
                requested |-> max_n_scales,
                max_n_scales |-> ScaleCount(real_crop_size, max_n_scales, scale_factor),
                n_nets |-> NumNets(real_crop_size, max_n_scales, scale_factor)]
    /\ pc' = "built"
    /\ UNCHANGED <<cfg, feature_map, all_scales, downscales, stage, fused, geo, crop, swap>>

\* MultiScaleDiscriminator.forward
DiscForward(input, n_weights) ==
    /\ pc = "built"
    /\ cfg' = [call |-> "Discriminator", input |-> input, n_weights |-> n_weights]
    /\ IF /\ disc.n_nets >= 1
          /\ n_weights >= 1
          /\ \A i \in {0} \cup ForwardScales(disc.n_nets, n_weights) : ScaleMap(disc, input, i).ok
       THEN /\ feature_map' = ScaleMap(disc, input, 0).out
            /\ all_scales' = [i \in 1..Min2(disc.n_nets, n_weights) |->
                                 ScaleMap(disc, input, i - 1).out]
            /\ pc' = "done"
       ELSE /\ pc' = "failed"
            /\ UNCHANGED <<feature_map, all_scales>>
    /\ UNCHANGED <<downscales, stage, fused, geo, disc, crop, swap>>

InitDisc ==
    /\ pc = "new"
    /\ cfg = Idle
    /\ feature_map = Idle
    /\ all_scales = <<>>
    /\ downscales = NoneValue
    /\ stage = 0
    /\ fused = Idle
    /\ OtherIdle

\* sides of real_crop_size: around the floor and twice the floor, and some
\* multiples of the floor
CropSides ==
    ((min_size - CropMargin)..(min_size + CropMargin))
    \cup ((2 * min_size - CropMargin)..(2 * min_size + CropMargin))
    \cup {8, 48, 64, 256}

\* construction alone, over many crop sizes
NextDiscInit ==
    /\ pc = "new"
    /\ \E h \in CropSides, w \in CropSides, n \in 0..MaxScales, sf \in 2..MaxScaleFactor :
           DiscInit(<<h, w>>, n, sf, 128, 0)

SpecDiscInit == InitDisc /\ [][NextDiscInit]_vars

\* construction and one forward pass
NextDisc ==
    \/ /\ pc = "new"
       /\ \E s \in {16, 32, 64, 128}, n \in 1..MaxWeights, e \in 0..MaxExtra :
              DiscInit(<<s, s>>, n, 2, 128, e)
    \/ /\ pc = "built"
       /\ \E h \in 1..MaxImage, w \in 1..MaxImage, n \in 0..MaxWeights :
              DiscForward(Shape(3, h, w), n)

SpecDisc == InitDisc /\ [][NextDisc]_vars

(***************************************************************************)
(* MultiScaleDiscriminator: the number of scale networks.                  *)
(***************************************************************************)
DiscBuilt == pc = "built" /\ disc # Idle
MinSide(size) == Min2(size[1], size[2])

\* the largest count n >= 1 whose smallest scale, m / sf^(n-1), is at least
\* min_size (0 when there is none)
LargestCount(m, sf) ==
    Cardinality({n \in 1..(MaxScales + 1) : m >= min_size * Pow(sf, n - 1)})

\* C2 as claimed: the number of scale networks is the minimum of max_n_scales and
\* the largest count whose smallest scale stays at or above 16; for
\* real_crop_size=(256,256), max_n_scales=9, scale_factor=2 it is 5.
C2_CountIsLargestFitting ==
    DiscBuilt =>
        /\ disc.n_nets = Min2(disc.requested, LargestCount(MinSide(disc.real_crop_size),
                                                           disc.scale_factor))
        /\ (disc.real_crop_size = <<256, 256>> /\ disc.requested = 9 /\ disc.scale_factor = 2)
               => disc.n_nets = 5

\* C3: the scale count never exceeds max_n_scales, and a crop whose smaller side
\* is not larger never gets more scale networks (same max_n_scales, scale_factor).
C3_CountBoundedAndMonotone ==
    DiscBuilt =>
        /\ disc.max_n_scales <= disc.requested
        /\ disc.n_nets <= disc.requested
        /\ \A h \in CropSides, w \in CropSides :
               MinSide(<<h, w>>) <= MinSide(disc.real_crop_size)
                   => NumNets(<<h, w>>, disc.requested, disc.scale_factor) <= disc.n_nets

\* a discriminator whose count is below the requested maximum and above that of
\* a smaller crop has been built
C3_Witness ==
    /\ DiscBuilt
    /\ disc.real_crop_size = <<64, 33>>
    /\ disc.requested = 9
    /\ disc.scale_factor = 2
    /\ disc.n_nets = 2
    /\ NumNets(<<20, 20>>, 9, 2) = 1

(***************************************************************************)
(* MultiScaleDiscriminator: the probability map of a scale network.        *)
(***************************************************************************)
\* C10 as claimed: the extra conv layers keep height and width, so the map of
\* a network has the size it has with extra_conv_layers = 0, and a network
\* that yields a non-empty map without extra layers yields one with them.
C10_ExtraLayersKeepSize ==
    (pc \in {"done", "failed"} /\ disc # Idle) =>
        LET plain == RunNet(make_net(disc.base_channels, 0), 1, cfg.input)
        IN  /\ pc = "done" => SizeOf(feature_map) = SizeOf(plain.out)
            /\ (plain.ok /\ disc.n_nets >= 1 /\ cfg.n_weights = 1) => pc = "done"

(***************************************************************************)
(* GeoTransform.forward called on its own.                                 *)
(***************************************************************************)
MaxGeoWidth == 8

GeoCall(input, target_size, shifts) ==
    /\ pc = "idle"
    /\ geo' = GeoRecord(input, target_size, shifts)
    /\ pc' = IF CanGeoForward(input, target_size, shifts) THEN "done" ELSE "failed"
    /\ UNCHANGED <<cfg, feature_map, all_scales, downscales, stage, fused, disc, crop, swap>>

InitIdle ==
    /\ pc = "idle"
    /\ cfg = Idle
    /\ feature_map = Idle
    /\ all_scales = <<>>
    /\ downscales = NoneValue
    /\ stage = 0
    /\ fused = Idle
    /\ OtherIdle

NextGeo ==
    /\ pc = "idle"
    /\ \E w \in 1..MaxGeoWidth, h \in 1..2, l \in ShiftValues, r \in ShiftValues :
           GeoCall(Shape(4, h, w), <<h, w>>, <<l, r>>)

SpecGeo == InitIdle /\ [][NextGeo]_vars

\* C7 as claimed: for every width and every shift pair of either sign the pad is
\* (ceil(W * |left_shift|), ceil(W * |right_shift|)) horizontally, 0 vertically.
C7_PadIsCeilOfAbs ==
    (pc = "done" /\ geo # Idle) =>
        geo.pad = <<CeilOfAbs(geo.input.w, geo.shifts[1]),
                    CeilOfAbs(geo.input.w, geo.shifts[2]), 0, 0>>

(***************************************************************************)
(* RandomCrop.forward.  A tensor of the list is its shape, or NoneTensor;  *)
(* a returned crop is the window of its source it shows.                   *)
(***************************************************************************)
MaxCropImage == 4
MaxCropArg == 4
MaxDivide == 3
MaxTensors == 2

NoneTensor == [is_none |-> TRUE]

\* a[lo:hi] on a dimension of length n: the indices selected (Python slicing:
\* a negative bound counts from the end, both bounds are clamped to 0..n)
SliceBound(x, n) == IF x < 0 THEN Max2(x + n, 0) ELSE Min2(x, n)
SliceClipped(lo, hi, n) == {k \in 0..(n - 1) : lo <= k /\ k < hi}
Slice(lo, hi, n) == {k \in 0..(n - 1) : SliceBound(lo, n) <= k /\ k < SliceBound(hi, n)}

\* np.clip(x, lo, hi)
Clip(x, lo, hi) == Min2(Max2(x, lo), hi)
\* np.uint32(np.floor(x * 1.0 / must_divide) * must_divide), x >= 0
FloorToMultipleOff(x, must_divide) == x
FloorToMultiple(x, must_divide) == (x \div must_divide) * must_divide

\* lines 343-349: (cr_v_sz, cr_h_sz)
CropSize(self, crop_size, im_v_sz, im_h_sz) ==
    IF crop_size.is_none
    THEN <<FloorToMultiple(Clip(self.crop_size.list[1], 0, im_v_sz - 1), self.must_divide),
           FloorToMultiple(Clip(self.crop_size.list[2], 0, im_h_sz - 1), self.must_divide)>>
    ELSE crop_size.list

\* np.random.randint(0, high): the values it can return (none: ValueError)
Randint(high) == 0..(high - 1)

\* input_tensor[:, :, v:v + cr_v, h:h + cr_h], or None
CropOf(t, pos, cr) ==
    IF t = NoneTensor THEN NoneTensor
    ELSE [top |-> pos[1], left |-> pos[2],
          h |-> Cardinality(Slice(pos[1], pos[1] + cr[1], t.h)),
          w |-> Cardinality(Slice(pos[2], pos[2] + cr[2], t.w))]

\* whether the call gets as far as drawing the offset
CropCallOk(self, input_tensors, crop_size) ==
    /\ Len(input_tensors) >= 1
    /\ input_tensors[1] # NoneTensor
    /\ (crop_size.is_none => ~self.crop_size.is_none)
    /\ LET cr == CropSize(self, crop_size, input_tensors[1].h, input_tensors[1].w)
       IN  /\ Randint(input_tensors[1].h - cr[1]) # {}
           /\ Randint(input_tensors[1].w - cr[2]) # {}

CropFailed(self, input_tensors, crop_size) ==
    [self |-> self, input_tensors |-> input_tensors, crop_size |-> crop_size,
     ok |-> FALSE, cr |-> <<0, 0>>, pos |-> <<0, 0>>, out_tensors |-> <<>>,
     returned_pos |-> NoneValue]

CropReturned(self, input_tensors, crop_size, pos) ==
    LET cr == CropSize(self, crop_size, input_tensors[1].h, input_tensors[1].w)
    IN  [self |-> self, input_tensors |-> input_tensors, crop_size |-> crop_size,
         ok |-> TRUE, cr |-> cr, pos |-> pos,
         out_tensors |-> [k \in 1..Len(input_tensors) |-> CropOf(input_tensors[k], pos, cr)],
         returned_pos |-> IF self.return_pos THEN ListValue(pos) ELSE NoneValue]

\* the results RandomCrop.forward can give for these arguments
CropResults(self, input_tensors, crop_size) ==
    IF CropCallOk(self, input_tensors, crop_size)
    THEN LET cr == CropSize(self, crop_size, input_tensors[1].h, input_tensors[1].w)
         IN  {CropReturned(self, input_tensors, crop_size, <<v, h>>) :
                  v \in Randint(input_tensors[1].h - cr[1]),
                  h \in Randint(input_tensors[1].w - cr[2])}
    ELSE {CropFailed(self, input_tensors, crop_size)}

\* RandomCrop.forward
RandomCropForward(self, input_tensors, crop_size) ==
    /\ pc = "idle"
    /\ crop' \in CropResults(self, input_tensors, crop_size)
    /\ pc' = IF crop'.ok THEN "done" ELSE "failed"
    /\ UNCHANGED <<cfg, feature_map, all_scales, downscales, stage, fused, geo, disc, swap>>

CropArgs == {ListValue(<<a, b>>) : a \in 0..MaxCropArg, b \in 0..MaxCropArg}

\* lists of co-registered tensors of one shape, any of them absent
TensorLists(t) ==
    UNION {[1..n -> {t, NoneTensor}] : n \in 1..MaxTensors}

NextCrop ==
    /\ pc = "idle"
    /\ \E h \in 1..MaxCropImage, w \in 1..MaxCropImage, d \in 1..MaxDivide,
          size \in CropArgs, explicit \in BOOLEAN, return_pos \in BOOLEAN :
         \E input_tensors \in TensorLists(Shape(3, h, w)) :
           RandomCropForward(
               [crop_size |-> IF explicit THEN NoneValue ELSE size,
                must_divide |-> d, return_pos |-> return_pos],
               input_tensors,
               IF explicit THEN size ELSE NoneValue)

SpecCrop == InitIdle /\ [][NextCrop]_vars

CropDone == pc = "done" /\ crop # Idle
Present(list) == {k \in 1..Len(list) : list[k] # NoneTensor}

\* C4 as claimed: with the configured crop size or an explicitly supplied one,
\* height and width of every returned crop are multiples of must_divide and
\* strictly smaller than the source's height and width.
C4_CropDivisibleAndSmaller ==
    CropDone =>
        \A k \in Present(crop.out_tensors) :
            /\ Divides(crop.self.must_divide, crop.out_tensors[k].h)
            /\ Divides(crop.self.must_divide, crop.out_tensors[k].w)
            /\ crop.out_tensors[k].h < crop.input_tensors[k].h
            /\ crop.out_tensors[k].w < crop.input_tensors[k].w

\* C4 amended: every returned crop is strictly smaller than its source in height
\* and width; with the configured crop size its sides are multiples of
\* must_divide, with an explicitly supplied crop size they are exactly the
\* supplied sides (neither clamped nor floored).
C4_CropSmallerAndDivisibleIfConfigured ==
    CropDone =>
        \A k \in Present(crop.out_tensors) :
            /\ crop.out_tensors[k].h < crop.input_tensors[k].h
            /\ crop.out_tensors[k].w < crop.input_tensors[k].w
            /\ crop.crop_size.is_none =>
                   /\ Divides(crop.self.must_divide, crop.out_tensors[k].h)
                   /\ Divides(crop.self.must_divide, crop.out_tensors[k].w)
            /\ ~crop.crop_size.is_none =>
                   <<crop.out_tensors[k].h, crop.out_tensors[k].w>> = crop.crop_size.list

\* a configured crop size of (4, 3) was clamped to the 3 x 4 source and floored
\* to multiples of 2
C4_Witness ==
    /\ CropDone
    /\ crop.crop_size.is_none
    /\ crop.self.crop_size = ListValue(<<4, 3>>)
    /\ crop.self.must_divide = 2
    /\ crop.input_tensors = <<Shape(3, 3, 4)>>
    /\ crop.out_tensors[1].h = 2 /\ crop.out_tensors[1].w = 2
    /\ crop.pos = <<0, 1>>

\* C8 as claimed: for a list of one or more co-registered tensors with any subset
\* absent, the first included, and a crop size that fits, the call returns a list
\* of the same length, every present tensor cropped to the same window at the
\* offset returned with return_pos, every absent entry absent.
C8_AbsentEntriesTolerated ==
    (/\ pc \in {"done", "failed"}
     /\ crop # Idle
     /\ \E k \in Present(crop.input_tensors) :
            LET cr == CropSize(crop.self, crop.crop_size,
                               crop.input_tensors[k].h, crop.input_tensors[k].w)
            IN  /\ (crop.crop_size.is_none => ~crop.self.crop_size.is_none)
                /\ cr[1] < crop.input_tensors[k].h
                /\ cr[2] < crop.input_tensors[k].w)
    =>  /\ crop.ok
        /\ Len(crop.out_tensors) = Len(crop.input_tensors)
        /\ \A k \in 1..Len(crop.input_tensors) :
               IF crop.input_tensors[k] = NoneTensor
               THEN crop.out_tensors[k] = NoneTensor
               ELSE /\ crop.out_tensors[k] # NoneTensor
                    /\ crop.out_tensors[k].top = crop.pos[1]
                    /\ crop.out_tensors[k].left = crop.pos[2]
                    /\ crop.out_tensors[k].h = crop.cr[1]
                    /\ crop.out_tensors[k].w = crop.cr[2]
        /\ crop.self.return_pos => crop.returned_pos = ListValue(crop.pos)

(***************************************************************************)
(* SwapCrops.forward.  The image is a function from pixel positions        *)
(* <<row, column>> (from 0) to values; the input has a different value at  *)
(* every pixel.  Offsets and sizes are added as signed integers (np.int    *)
(* dates the code to numpy's value-based promotion: int + uint32 is int64),*)
(* so a band that starts left of or above the image has a negative slice   *)
(* bound.                                                                  *)
(***************************************************************************)
MaxSwapImage == 5
MaxSwapCrop == 3
MaxMaskWidth == 2

\* RandomCrop(None, return_pos=True): must_divide keeps its default
DefaultMustDivide == 4
SwapRandCrop == [crop_size |-> NoneValue, must_divide |-> DefaultMustDivide, return_pos |-> TRUE]

Pixels(h, w) == (0..(h - 1)) \X (0..(w - 1))
InputImage(h, w) == [p \in Pixels(h, w) |-> p[1] * w + p[2] + 1]

\* np.uint32(np.random.rand() * (max - min) + min), rand in [0, 1), min <= max
SampledSizes(min_crop_size, max_crop_size) ==
    IF max_crop_size > min_crop_size
    THEN min_crop_size..(max_crop_size - 1)
    ELSE {min_crop_size}

\* the pixels of the region at pos of size cr
Region(pos, cr, h, w) ==
    Slice(pos[1], pos[1] + cr[1], h) \X Slice(pos[2], pos[2] + cr[2], w)

\* output_tensor[:, :, v:v + cr_v, h:h + cr_h] = source[:, :, sv:sv + cr_v, sh:sh + cr_h]
WriteCrop(out, pos, src, src_pos, cr, h, w) ==
    [p \in Pixels(h, w) |->
        IF p \in Region(pos, cr, h, w)
        THEN src[<<p[1] - pos[1] + src_pos[1], p[2] - pos[2] + src_pos[2]>>]
        ELSE out[p]]

\* loss_mask[:, :, rlo:rhi, clo:chi] = 0
ZeroBand(mask, rlo, rhi, clo, chi, h, w) ==
    [p \in Pixels(h, w) |->
        IF p[1] \in Slice(rlo, rhi, h) /\ p[2] \in Slice(clo, chi, w) THEN 0 ELSE mask[p]]

\* lines 389-394 (and 395-400): the four bands of the region at pos
ZeroBands(mask, pos, cr, mw, h, w) ==
    LET m1 == ZeroBand(mask, pos[1], pos[1] + cr[1], pos[2] - mw, pos[2] + mw, h, w)
        m2 == ZeroBand(m1, pos[1] - mw, pos[1] + mw, pos[2], pos[2] + cr[2], h, w)
        m3 == ZeroBand(m2, pos[1], pos[1] + cr[1],
                       pos[2] + cr[2] - mw, pos[2] + cr[2] + mw, h, w)
    IN  ZeroBand(m3, pos[1] + cr[1] - mw, pos[1] + cr[1] + mw, pos[2], pos[2] + cr[2], h, w)

\* lines 375-378: the crop size and the two crops
SwapSample ==
    /\ pc = "swap_sample"
    /\ \E cr_v_sz \in SampledSizes(cfg.min_crop_size, cfg.max_crop_size),
          cr_h_sz \in SampledSizes(cfg.min_crop_size, cfg.max_crop_size) :
         \E c1 \in CropResults(SwapRandCrop, <<cfg.input>>, ListValue(<<cr_v_sz, cr_h_sz>>)),
            c2 \in CropResults(SwapRandCrop, <<cfg.input>>, ListValue(<<cr_v_sz, cr_h_sz>>)) :
           IF c1.ok /\ c2.ok
           THEN /\ swap' = [swap EXCEPT !.cr = <<cr_v_sz, cr_h_sz>>,
                                        !.pos1 = c1.returned_pos.list,
                                        !.pos2 = c2.returned_pos.list]
                /\ pc' = "swap_write"
           ELSE /\ swap' = [swap EXCEPT !.cr = <<cr_v_sz, cr_h_sz>>]
                /\ pc' = "failed"
    /\ UNCHANGED <<cfg, feature_map, all_scales, downscales, stage, fused, geo, disc, crop>>

\* lines 380-384: the copy and the two writes; crop_1 and crop_2 are views of
\* input_tensor
SwapWrite ==
    /\ pc = "swap_write"
    /\ LET h == cfg.input.h
           w == cfg.input.w
           copy == [p \in Pixels(h, w) |-> swap.input[p]]
           first == WriteCrop(copy, swap.pos1, swap.input, swap.pos2, swap.cr, h, w)
       IN  swap' = [swap EXCEPT !.output_tensor =
                        WriteCrop(first, swap.pos2, swap.input, swap.pos1, swap.cr, h, w)]
    /\ pc' = "swap_mask"
    /\ UNCHANGED <<cfg, feature_map, all_scales, downscales, stage, fused, geo, disc, crop>>

\* lines 387-402: the mask, and the return
SwapMask ==
    /\ pc = "swap_mask"
    /\ LET h == cfg.input.h
           w == cfg.input.w
           ones == [p \in Pixels(h, w) |-> 1]
           one == ZeroBands(ones, swap.pos1, swap.cr, cfg.mask_width, h, w)
       IN  swap' = [swap EXCEPT !.loss_mask =
                        ZeroBands(one, swap.pos2, swap.cr, cfg.mask_width, h, w)]
    /\ pc' = "done"
    /\ UNCHANGED <<cfg, feature_map, all_scales, downscales, stage, fused, geo, disc, crop>>

InitSwap ==
    /\ pc = "swap_sample"
    /\ cfg \in {c \in [call : {"SwapCrops"},
                       input : {Shape(1, h, w) : h \in 2..MaxSwapImage, w \in 2..MaxSwapImage},
                       min_crop_size : 1..MaxSwapCrop,
                       max_crop_size : 1..MaxSwapCrop,
                       mask_width : 0..MaxMaskWidth] :
                c.min_crop_size <= c.max_crop_size}
    /\ swap = [input |-> InputImage(cfg.input.h, cfg.input.w),
               cr |-> <<0, 0>>, pos1 |-> <<0, 0>>, pos2 |-> <<0, 0>>,
               output_tensor |-> <<>>, loss_mask |-> <<>>]
    /\ feature_map = Idle
    /\ all_scales = <<>>
    /\ downscales = NoneValue
    /\ stage = 0
    /\ fused = Idle
    /\ geo = Idle /\ disc = Idle /\ crop = Idle

NextSwap == SwapSample \/ SwapWrite \/ SwapMask

SpecSwap == InitSwap /\ [][NextSwap]_vars

RECURSIVE SumOver(_, _)
SumOver(S, f) ==
    IF S = {} THEN 0
    ELSE LET p == CHOOSE q \in S : TRUE IN f[p] + SumOver(S \ {p}, f)

SwapRegion1 == Region(swap.pos1, swap.cr, cfg.input.h, cfg.input.w)
SwapRegion2 == Region(swap.pos2, swap.cr, cfg.input.h, cfg.input.w)

\* C5 as claimed: for every sampled pair of regions, overlapping ones included,
\* the output over the union of the regions is a permutation of the input over
\* that union (so the sum over the union is kept), pixels outside both regions
\* are unchanged and the input tensor is not modified.
C5_SwapIsPermutation ==
    pc \in {"swap_mask", "done"} =>
        LET U == SwapRegion1 \cup SwapRegion2
        IN  /\ {swap.output_tensor[p] : p \in U} = {swap.input[p] : p \in U}
            /\ SumOver(U, swap.output_tensor) = SumOver(U, swap.input)
            /\ \A p \in Pixels(cfg.input.h, cfg.input.w) \ U :
                   swap.output_tensor[p] = swap.input[p]
            /\ swap.input = InputImage(cfg.input.h, cfg.input.w)

\* the four bands of a region, clipped to the image
ClippedBands(pos, cr, mw, h, w) ==
    (SliceClipped(pos[1], pos[1] + cr[1], h) \X SliceClipped(pos[2] - mw, pos[2] + mw, w))
    \cup (SliceClipped(pos[1] - mw, pos[1] + mw, h) \X SliceClipped(pos[2], pos[2] + cr[2], w))
    \cup (SliceClipped(pos[1], pos[1] + cr[1], h)
              \X SliceClipped(pos[2] + cr[2] - mw, pos[2] + cr[2] + mw, w))
    \cup (SliceClipped(pos[1] + cr[1] - mw, pos[1] + cr[1] + mw, h)
              \X SliceClipped(pos[2], pos[2] + cr[2], w))

\* C6 as claimed: for every position of the two regions, near an image edge or
\* not, the loss mask is 0 exactly on the four bands of width 2 * mask_width
\* centred on the four edges of each region, clipped to the image, and 1 elsewhere.
C6_MaskIsClippedBands ==
    pc = "done" /\ IsSwap =>
        LET h == cfg.input.h
            w == cfg.input.w
            bands == ClippedBands(swap.pos1, swap.cr, cfg.mask_width, h, w)
                     \cup ClippedBands(swap.pos2, swap.cr, cfg.mask_width, h, w)
        IN  \A p \in Pixels(h, w) : swap.loss_mask[p] = IF p \in bands THEN 0 ELSE 1

====
